---- MODULE Spec2Model ----
(***************************************************************************)
(* The accordion widget: options validation, rendering into the host       *)
(* container and the open/closed state machine of its panels.              *)
(*                                                                         *)
(* Text is a sequence of tokens (a markup tag, a placeholder name, a piece *)
(* of caller text), so that String.replace, join and += are modelled by    *)
(* what they do to the text.  JavaScript values are tagged records.        *)
(***************************************************************************)
EXTENDS Integers, Sequences, FiniteSets, TLC

VARIABLES
    options,           \* the argument handed to the constructor
    pc,                \* "new", "failed", "idle", "close", "open"
    _options,          \* this._options
    _host,             \* this._host: the id of the host element, or Null
    _openedPanel,      \* this._openedPanel: a panel (1..n) or null
    validationResult,  \* _setOptions' validationResult (Undefined before the call)
    thrown,            \* the message of the error the last call raised, << >> if none
    container,         \* the element with id HostId: [class, innerHTML]
    classList,         \* classList[p]: the class set of panel element p
    height,            \* height[p]: inline style.height of p's .content, << >> unset, <<n>> n px
    listeners,         \* the panels whose toggle has a click listener
    timers,            \* pending setTimeout callbacks, in firing order (equal delays)
    panel,             \* the argument of the running (or last) _togglePanel call
    isOpen,            \* the local isOpen of the running (or last) _togglePanel call
    closedPanel,       \* the panel the running (or last) handler closed, or null
    before             \* the clicked panel's state when the last click on a closed panel began

vars == <<options, pc, _options, _host, _openedPanel, validationResult, thrown,
          container, classList, height, listeners, timers, panel, isOpen,
          closedPanel, before>>

-----------------------------------------------------------------------------
(* Bounds *)

MaxPanels == 3
MaxValidatedPanels == 2
MaxRenderedPanels == 2
MaxTimers == 5

-----------------------------------------------------------------------------
(* JavaScript values *)

Undefined == [t |-> "undefined"]
Null == [t |-> "null"]
Num == [t |-> "number"]
Str(s) == [t |-> "string", s |-> s]
Arr(items) == [t |-> "array", items |-> items]
AccordionPanel(title, subtitle, content) ==
    [t |-> "object", title |-> title, subtitle |-> subtitle, content |-> content]
AccordionOptions(c, mainTitle, panels) ==
    [t |-> "object", container |-> c, mainTitle |-> mainTitle, panels |-> panels]

null == 0

isNil(value) == value = Undefined \/ value = Null

\* value[name] of a value that is not nil: own fields of objects, undefined otherwise
Get(value, name) ==
    IF value.t = "object" /\ name \in DOMAIN value THEN value[name] ELSE Undefined

\* the string put in the place of a value by string conversion
Text(value) == IF value.t = "string" THEN value.s ELSE <<value.t>>

\* JavaScript truthiness (of the values used here)
Truthy(value) == ~isNil(value) /\ value # Str(<< >>)

isArray(value) == value.t = "array"

Digits == <<"0", "1", "2", "3", "4", "5", "6", "7", "8", "9">>

\* `${index}`: the decimal digits of a natural number
RECURSIVE decimal(_)
decimal(i) == IF i < 10 THEN <<Digits[i + 1]>> ELSE decimal(i \div 10) \o <<Digits[(i % 10) + 1]>>

RECURSIVE Flatten(_)
Flatten(seqs) == IF seqs = << >> THEN << >> ELSE Head(seqs) \o Flatten(Tail(seqs))

-----------------------------------------------------------------------------
(* Options validator *)

ValidationResult(ok, errors) == [completion |-> "return", ok |-> ok, errors |-> errors]
TypeError == [completion |-> "throw", ok |-> FALSE, errors |-> << >>]

requiredParameters == <<"container", "panels">>
\* a validator that also requires a subtitle
requiredPanelParameters_withSubtitle == <<"title", "subtitle", "content">>

requiredPanelParameters == <<"title", "content">>

missingParameters(value, required) ==
    SelectSeq(required, LAMBDA rp : isNil(Get(value, rp)))

optionErrors(opts) ==
    LET missing == missingParameters(opts, requiredParameters)
    IN  [k \in 1..Len(missing) |->
            <<"The provided options must contain property ", missing[k]>>]

\* the errors options.panels.forEach pushes, from the 0-based index on
RECURSIVE panelErrors(_, _)
panelErrors(panels, index) ==
    IF index >= Len(panels) THEN << >>
    ELSE LET missing == missingParameters(panels[index + 1], requiredPanelParameters)
         IN  [k \in 1..Len(missing) |->
                 <<"Panel #">> \o decimal(index) \o <<" must contain property ", missing[k]>>]
             \o panelErrors(panels, index + 1)

\* panel[rpp] of a nil panel raises a TypeError
panelReadThrows(panels) == \E i \in 1..Len(panels) : isNil(panels[i])


\* _validate with the Array.isArray test inverted
_validate_invertedArrayCheck(opts) ==
    IF isNil(opts)
    THEN ValidationResult(FALSE, << <<"Options must be provided.">> >>)
    ELSE LET panels == Get(opts, "panels")
         IN  IF isNil(panels)
             THEN LET errors == optionErrors(opts)
                  IN  ValidationResult(errors = << >>, errors)
             ELSE IF isArray(panels)
             THEN LET errors == optionErrors(opts)
                                \o << <<"The panels parameter must be an array of objects">> >>
                  IN  ValidationResult(errors = << >>, errors)
             ELSE TypeError

_validate(opts) ==
    IF isNil(opts)
    THEN ValidationResult(FALSE, << <<"Options must be provided.">> >>)
    ELSE LET panels == Get(opts, "panels")
         IN  IF isNil(panels)
             THEN LET errors == optionErrors(opts)
                  IN  ValidationResult(errors = << >>, errors)
             ELSE IF ~isArray(panels)
             THEN LET errors == optionErrors(opts)
                                \o << <<"The panels parameter must be an array of objects">> >>
                  IN  ValidationResult(errors = << >>, errors)
             ELSE IF panelReadThrows(panels.items)
             THEN TypeError
             ELSE LET errors == optionErrors(opts) \o panelErrors(panels.items, 0)
                  IN  ValidationResult(errors = << >>, errors)

\* validationResult.errors.reduce(...), from the accumulator memo on
RECURSIVE reduceErrors(_, _)
reduceErrors(errors, memo) ==
    IF errors = << >> THEN memo
    ELSE reduceErrors(Tail(errors),
                      IF memo # << >>
                      THEN <<" ">> \o memo \o <<"\n - ">> \o Head(errors)
                      ELSE <<"- ">> \o Head(errors))

\* a message that runs the errors together without line breaks
errorMessage_noLineBreaks(errors) ==
    <<"The provided accordion options are not valid. Fix the following errors:">>
    \o Flatten([k \in DOMAIN errors |-> <<"- ">> \o errors[k]])

errorMessage(errors) ==
    <<"The provided accordion options are not valid. Fix the following errors:">>
    \o reduceErrors(errors, << >>)

-----------------------------------------------------------------------------
(* Renderer *)

TRANSITION_DURATION_MS == 500

PanelOpenTag == "<div class='panel "
DescriptionOpenTag == "<div class='description ellipsify'>"
HeaderOpenTag == "<div class='header'>"
TitleOpenTag == "<div class='title'>"
ContentOpenTag == "<div class='content'>"
WrapperOpenTag == "<div class='content-wrapper'>"

headerTemplate == <<HeaderOpenTag, "HEADER_TITLE", "</div>">>

panelTemplate ==
    <<PanelOpenTag, "DESCRIPTION_CLASS", "'>",
        HeaderOpenTag,
          "<div class='text'>",
            TitleOpenTag, "PANEL_TITLE", "</div>",
            "DESCRIPTION_PLACEHOLDER",
          "</div>",
          "<div class='toggle'>",
            "<i class='icon material-icons'>", "expand_more", "</i>",
          "</div>",
        "</div>",
        ContentOpenTag,
          WrapperOpenTag, "PANEL_CONTENT", "</div>",
        "</div>",
      "</div>">>

descriptionTemplate == <<DescriptionOpenTag, "PANEL_DESCRIPTION", "</div>">>

\* the position of the first occurrence of token in text, 0 if there is none
indexOf(text, token) ==
    IF \E i \in 1..Len(text) : text[i] = token
    THEN CHOOSE i \in 1..Len(text) :
            text[i] = token /\ \A j \in 1..(i - 1) : text[j] # token
    ELSE 0

\* the replacement text with its special patterns ($$, $&, $`, $') expanded
RECURSIVE expand(_, _, _, _)
expand(replacement, matched, prefix, suffix) ==
    IF replacement = << >> THEN << >>
    ELSE (CASE Head(replacement) = "$$" -> <<"$">>
            [] Head(replacement) = "$&" -> <<matched>>
            [] Head(replacement) = "$`" -> prefix
            [] Head(replacement) = "$'" -> suffix
            [] OTHER -> <<Head(replacement)>>)
         \o expand(Tail(replacement), matched, prefix, suffix)

\* String.prototype.replace(pattern, replacement) with a string pattern:
\* the first occurrence only
replace(text, pattern, replacement) ==
    LET i == indexOf(text, pattern)
    IN  IF i = 0 THEN text
        ELSE LET prefix == SubSeq(text, 1, i - 1)
                 suffix == SubSeq(text, i + 1, Len(text))
             IN  prefix \o expand(replacement, pattern, prefix, suffix) \o suffix


\* _renderPanel whose hasDescription is !isNil(panel.subtitle)
_renderPanel_nilCheck(p) ==
    LET hasDescription == ~isNil(Get(p, "subtitle"))
        t1 == replace(panelTemplate, "PANEL_TITLE", Text(Get(p, "title")))
        t2 == replace(t1, "DESCRIPTION_CLASS",
                      IF hasDescription THEN <<"with-description">> ELSE << >>)
        t3 == replace(t2, "DESCRIPTION_PLACEHOLDER",
                      IF hasDescription
                      THEN replace(descriptionTemplate, "PANEL_DESCRIPTION",
                                   Text(Get(p, "subtitle")))
                      ELSE << >>)
    IN  replace(t3, "PANEL_CONTENT", Text(Get(p, "content")))

_renderPanel(p) ==
    LET hasDescription == Truthy(Get(p, "subtitle"))
        t1 == replace(panelTemplate, "PANEL_TITLE", Text(Get(p, "title")))
        t2 == replace(t1, "DESCRIPTION_CLASS",
                      IF hasDescription THEN <<"with-description">> ELSE << >>)
        t3 == replace(t2, "DESCRIPTION_PLACEHOLDER",
                      IF hasDescription
                      THEN replace(descriptionTemplate, "PANEL_DESCRIPTION",
                                   Text(Get(p, "subtitle")))
                      ELSE << >>)
    IN  replace(t3, "PANEL_CONTENT", Text(Get(p, "content")))

\* the innerHTML _render assigns: the optional header, then panels.map(...).join("")
renderedHTML(opts) ==
    LET hasHeader == ~isNil(Get(opts, "mainTitle"))
        header == IF hasHeader
                  THEN replace(headerTemplate, "HEADER_TITLE", Text(Get(opts, "mainTitle")))
                  ELSE << >>
        items == Get(opts, "panels").items
        panelElements == [i \in 1..Len(items) |-> _renderPanel(items[i])]
    IN  header \o Flatten(panelElements)

_render(opts) == [class |-> <<"js-accordion">>, innerHTML |-> renderedHTML(opts)]

(* The elements the browser builds from the markup *)

\* the positions of the elements carrying class "panel", in document order
panelPositions(html) ==
    SelectSeq([i \in 1..Len(html) |-> i], LAMBDA i : html[i] = PanelOpenTag)

Count(html, token) == Cardinality({i \in 1..Len(html) : html[i] = token})

\* the tokens of the class attribute that opens at position pos
RECURSIVE attributeTokens(_, _)
attributeTokens(html, pos) ==
    IF pos > Len(html) \/ html[pos] = "'>" THEN {}
    ELSE {html[pos]} \cup attributeTokens(html, pos + 1)

\* the class lists of the panel elements of the markup
panelClassLists(html) ==
    LET at == panelPositions(html)
    IN  [p \in 1..Len(at) |-> {"panel"} \cup attributeTokens(html, at[p] + 1)]

-----------------------------------------------------------------------------
(* The instance and the page *)

HostId == Str(<<"host">>)
HostElement == [t |-> "element", id |-> HostId]
NoError == [name |-> "", message |-> << >>]
Error(message) == [name |-> "Error", message |-> message]
NotCalled == [completion |-> "none", ok |-> FALSE, errors |-> << >>]
NoSnapshot == [panel |-> null, classList |-> {}, height |-> << >>]
PageContainer == [class |-> <<"page-section">>, innerHTML |-> <<"<span>", "loading", "</span>">>]
Heights == {0, 120}

\* the state the constructor starts from, for an argument drawn from optionSet
InitWith(optionSet) ==
    /\ options \in optionSet
    /\ pc = "new"
    /\ _options = Null
    /\ _host = Null
    /\ _openedPanel = null
    /\ validationResult = NotCalled
    /\ thrown = NoError
    /\ container = PageContainer
    /\ classList = << >>
    /\ height = << >>
    /\ listeners = {}
    /\ timers = << >>
    /\ panel = null
    /\ isOpen = FALSE
    /\ closedPanel = null
    /\ before = NoSnapshot


\* _setOptions that stores the options before validating them
_setOptions_assignsFirst(opts) ==
    LET result == _validate(opts)
    IN  IF result.completion = "throw"
        THEN [validationResult |-> result, thrown |-> [name |-> "TypeError", message |-> << >>],
              _options |-> opts]
        ELSE IF ~result.ok
        THEN [validationResult |-> result, thrown |-> Error(errorMessage(result.errors)),
              _options |-> opts]
        ELSE [validationResult |-> result, thrown |-> NoError, _options |-> opts]

\* _setOptions: the validation result, the error raised and the value of this._options
_setOptions(opts) ==
    LET result == _validate(opts)
    IN  IF result.completion = "throw"
        THEN [validationResult |-> result, thrown |-> [name |-> "TypeError", message |-> << >>],
              _options |-> Null]
        ELSE IF ~result.ok
        THEN [validationResult |-> result, thrown |-> Error(errorMessage(result.errors)),
              _options |-> Null]
        ELSE [validationResult |-> result, thrown |-> NoError, _options |-> opts]

\* the panels _attachListeners gives a click listener
_attachListeners(html) == 1..Len(panelPositions(html))

\* document.getElementById: the page has one element, whose id is "host"
getElementById(selector) == IF selector = HostId THEN HostElement ELSE Null

constructor ==
    /\ pc = "new"
    /\ LET set == _setOptions(options)
       IN  /\ validationResult' = set.validationResult
           /\ _options' = set._options
           /\ IF set.thrown # NoError
              THEN /\ thrown' = set.thrown
                   /\ pc' = "failed"
                   /\ UNCHANGED <<_host, container, classList, height, listeners>>
              ELSE IF getElementById(Get(set._options, "container")) = Null
              THEN \* container.setAttribute on null
                   /\ thrown' = [name |-> "TypeError", message |-> << >>]
                   /\ pc' = "failed"
                   /\ UNCHANGED <<_host, container, classList, height, listeners>>
              ELSE /\ thrown' = NoError
                   /\ container' = _render(set._options)
                   /\ _host' = HostElement
                   /\ classList' = panelClassLists(container'.innerHTML)
                   /\ height' = [p \in 1..Len(classList') |-> << >>]
                   /\ listeners' = _attachListeners(container'.innerHTML)
                   /\ pc' = "idle"
    /\ UNCHANGED <<options, _openedPanel, timers, panel, isOpen, closedPanel, before>>

-----------------------------------------------------------------------------
(* Panel state machine *)

_isOpen(p) == "open" \in classList[p]

\* a setTimeout whose callback is never scheduled
setTimeout_dropped(queue, p) == queue

\* setTimeout(() => panel.classList.remove("transitioning"), TRANSITION_DURATION_MS)
setTimeout(queue, p) == Append(queue, p)


\* _closePanel that forgets classList.remove("open")
_closePanel_keepsOpen(els, p) ==
    IF "open" \notin els.classList[p] THEN els
    ELSE [classList |-> [els.classList EXCEPT ![p] = @ \cup {"transitioning"}],
          height |-> [els.height EXCEPT ![p] = <<0>>],
          timers |-> setTimeout(els.timers, p)]

\* _closePanel that forgets content.style.height = 0
_closePanel_keepsHeight(els, p) ==
    IF "open" \notin els.classList[p] THEN els
    ELSE [classList |-> [els.classList EXCEPT ![p] = (@ \cup {"transitioning"}) \ {"open"}],
          height |-> els.height,
          timers |-> setTimeout(els.timers, p)]

\* _closePanel(p), on the elements els = [classList, height, timers]
_closePanel(els, p) ==
    IF "open" \notin els.classList[p] THEN els
    ELSE [classList |-> [els.classList EXCEPT ![p] = (@ \cup {"transitioning"}) \ {"open"}],
          height |-> [els.height EXCEPT ![p] = <<0>>],
          timers |-> setTimeout(els.timers, p)]

\* an _openPanel that also collapses the content of every other panel
_openPanelOf_collapsesOthers(els, p, h) ==
    [classList |-> [els.classList EXCEPT ![p] = @ \cup {"open", "transitioning"}],
     height |-> [q \in DOMAIN els.height |-> IF q = p THEN <<h>> ELSE <<0>>],
     timers |-> setTimeout(els.timers, p)]

\* _openPanel(p) where the content wrapper measures h px
_openPanelOf(els, p, h) ==
    [classList |-> [els.classList EXCEPT ![p] = @ \cup {"open", "transitioning"}],
     height |-> [els.height EXCEPT ![p] = <<h>>],
     timers |-> setTimeout(els.timers, p)]

elements == [classList |-> classList, height |-> height, timers |-> timers]


\* _togglePanel without the auto-close of the other panel
_togglePanel_noAutoClose(p) ==
    IF _isOpen(p)
    THEN IF p = _openedPanel
         THEN [pc |-> "closeOnly", thrown |-> NoError]
         ELSE [pc |-> "idle", thrown |-> Error(<< >>)]
    ELSE [pc |-> "open", thrown |-> NoError]

\* _togglePanel that leaves an open panel alone
_togglePanel_ignoresOpen(p) ==
    IF _isOpen(p)
    THEN [pc |-> "idle", thrown |-> NoError]
    ELSE [pc |-> "closeThenOpen", thrown |-> NoError]

\* _togglePanel(p) up to its branch: where the handler goes next, and what it raises
_togglePanel(p) ==
    IF _isOpen(p)
    THEN IF p = _openedPanel
         THEN [pc |-> "closeOnly", thrown |-> NoError]
         ELSE [pc |-> "idle", thrown |-> Error(<< >>)]
    ELSE [pc |-> "closeThenOpen", thrown |-> NoError]

\* a click on the toggle of panel p runs its listener
click(p) ==
    /\ pc = "idle"
    /\ p \in listeners
    /\ Len(timers) + 2 <= MaxTimers
    /\ panel' = p
    /\ isOpen' = _isOpen(p)
    /\ closedPanel' = null
    /\ pc' = _togglePanel(p).pc
    /\ thrown' = _togglePanel(p).thrown
    /\ before' = IF _isOpen(p) THEN before
                 ELSE [panel |-> p, classList |-> classList[p], height |-> height[p]]
    /\ UNCHANGED <<options, _options, _host, _openedPanel, validationResult, container,
                   classList, height, listeners, timers>>

_closeOpenPanel ==
    /\ pc \in {"closeOnly", "closeThenOpen"}
    /\ IF _openedPanel = null
       THEN UNCHANGED <<classList, height, timers, _openedPanel, closedPanel>>
       ELSE LET els == _closePanel(elements, _openedPanel)
            IN  /\ classList' = els.classList
                /\ height' = els.height
                /\ timers' = els.timers
                /\ closedPanel' = _openedPanel
                /\ _openedPanel' = null
    /\ pc' = IF pc = "closeOnly" THEN "idle" ELSE "open"
    /\ UNCHANGED <<options, _options, _host, validationResult, thrown, container,
                   listeners, panel, isOpen, before>>

_openPanel ==
    /\ pc = "open"
    /\ IF _isOpen(panel)
       THEN UNCHANGED <<classList, height, timers, _openedPanel>>
       ELSE \E h \in Heights :
               LET els == _openPanelOf(elements, panel, h)
               IN  /\ classList' = els.classList
                   /\ height' = els.height
                   /\ timers' = els.timers
                   /\ _openedPanel' = panel
    /\ pc' = "idle"
    /\ UNCHANGED <<options, _options, _host, validationResult, thrown, container,
                   listeners, panel, isOpen, closedPanel, before>>

\* a cleanup callback that removes "open" along with "transitioning"
timeout_alsoCloses ==
    /\ pc = "idle"
    /\ timers # << >>
    /\ classList' = [classList EXCEPT ![Head(timers)] = @ \ {"transitioning", "open"}]
    /\ timers' = Tail(timers)
    /\ UNCHANGED <<options, pc, _options, _host, _openedPanel, validationResult, thrown,
                   container, height, listeners, panel, isOpen, closedPanel, before>>

\* the oldest pending cleanup callback runs
timeout ==
    /\ pc = "idle"
    /\ timers # << >>
    /\ classList' = [classList EXCEPT ![Head(timers)] = @ \ {"transitioning"}]
    /\ timers' = Tail(timers)
    /\ UNCHANGED <<options, pc, _options, _host, _openedPanel, validationResult, thrown,
                   container, height, listeners, panel, isOpen, closedPanel, before>>

-----------------------------------------------------------------------------
(* Inputs *)

SeqsUpTo(S, n) == UNION {[1..k -> S] : k \in 0..n}

\* a well-formed accordion of n panels, every other one with a subtitle
examplePanel(i) ==
    AccordionPanel(Str(<<"Title ">> \o decimal(i)),
                   IF i % 2 = 0 THEN Str(<<"Subtitle ">> \o decimal(i)) ELSE Undefined,
                   Str(<<"<p>", "Content ">> \o decimal(i) \o <<"</p>">>))

exampleOptions(n) ==
    AccordionOptions(HostId, Str(<<"Accordion">>), Arr([i \in 1..n |-> examplePanel(i)]))

ClickOptions == {Undefined} \cup {exampleOptions(n) : n \in 0..MaxPanels}

\* panel entries and options as a caller may hand them over, well-formed or not
ValidatedPanels ==
    {Undefined, Null, Num}
    \cup {AccordionPanel(t, s, c) : t \in {Undefined, Str(<<"T">>)},
                                    s \in {Undefined, Str(<<"S">>)},
                                    c \in {Null, Str(<<"C">>)}}

ValidatedOptions ==
    {Undefined, Null, Num, Str(<<"options">>)}
    \cup {AccordionOptions(c, m, ps) :
            c \in {Undefined, Null, HostId, Str(<<"missing">>)},
            m \in {Undefined, Str(<<"Accordion">>)},
            ps \in {Undefined, Null, Str(<<"not-an-array">>), Num}
                   \cup {Arr(items) : items \in SeqsUpTo(ValidatedPanels, MaxValidatedPanels)}}

\* valid options whose texts include the empty string, template placeholders and
\* replacement patterns
RenderedPanels ==
    {AccordionPanel(Str(t), s, Str(c)) :
        t \in {<<"A">>, <<"DESCRIPTION_PLACEHOLDER">>, <<"$&">>},
        s \in {Undefined, Null, Str(<< >>), Str(<<"sub">>), Str(<<"PANEL_CONTENT">>)},
        c \in {<<"<p>", "a", "</p>">>, << >>}}

RenderedOptions ==
    {AccordionOptions(HostId, m, Arr(items)) :
        m \in {Undefined, Str(<< >>), Str(<<"Accordion">>)},
        items \in SeqsUpTo(RenderedPanels, MaxRenderedPanels)}

-----------------------------------------------------------------------------
(* The draft variant (src/js/accordion.js) *)

\* the draft's panel template: the content sits directly in the content element
draftPanelTemplate ==
    <<PanelOpenTag, "DESCRIPTION_CLASS", "'>",
        HeaderOpenTag,
          "<div class='text'>",
            TitleOpenTag, "PANEL_TITLE", "</div>",
            "DESCRIPTION_PLACEHOLDER",
          "</div>",
          "<div class='toggle'>",
            "<i class='icon material-icons'>", "expand_more", "</i>",
          "</div>",
        "</div>",
        ContentOpenTag, "PANEL_CONTENT", "</div>",
      "</div>">>

draftRenderPanel(p) ==
    LET hasDescription == Truthy(Get(p, "subtitle"))
        t1 == replace(draftPanelTemplate, "PANEL_TITLE", Text(Get(p, "title")))
        t2 == replace(t1, "DESCRIPTION_CLASS",
                      IF hasDescription THEN <<"with-description">> ELSE << >>)
        t3 == replace(t2, "DESCRIPTION_PLACEHOLDER",
                      IF hasDescription
                      THEN replace(descriptionTemplate, "PANEL_DESCRIPTION",
                                   Text(Get(p, "subtitle")))
                      ELSE << >>)
    IN  replace(t3, "PANEL_CONTENT", Text(Get(p, "content")))

draftRender(opts) ==
    LET hasHeader == ~isNil(Get(opts, "mainTitle"))
        header == IF hasHeader
                  THEN replace(headerTemplate, "HEADER_TITLE", Text(Get(opts, "mainTitle")))
                  ELSE << >>
        items == Get(opts, "panels").items
    IN  [class |-> <<"js-accordion">>,
         innerHTML |-> header \o Flatten([i \in 1..Len(items) |-> draftRenderPanel(items[i])])]

draftConstructor ==
    /\ pc = "new"
    /\ LET set == _setOptions(options)
       IN  /\ validationResult' = set.validationResult
           /\ _options' = set._options
           /\ IF set.thrown # NoError
              THEN /\ thrown' = set.thrown
                   /\ pc' = "failed"
                   /\ UNCHANGED <<_host, container, classList, height, listeners>>
              ELSE IF getElementById(Get(set._options, "container")) = Null
              THEN /\ thrown' = [name |-> "TypeError", message |-> << >>]
                   /\ pc' = "failed"
                   /\ UNCHANGED <<_host, container, classList, height, listeners>>
              ELSE /\ thrown' = NoError
                   /\ container' = draftRender(set._options)
                   /\ _host' = HostElement
                   /\ classList' = panelClassLists(container'.innerHTML)
                   /\ height' = [p \in 1..Len(classList') |-> << >>]
                   /\ listeners' = _attachListeners(container'.innerHTML)
                   /\ pc' = "idle"
    /\ UNCHANGED <<options, _openedPanel, timers, panel, isOpen, closedPanel, before>>

\* the markup inside the content element of panel p
contentOf(html, p) ==
    LET at == SelectSeq([i \in 1..Len(html) |-> i], LAMBDA i : html[i] = ContentOpenTag)
        first == at[p] + 1
        last == CHOOSE j \in first..Len(html) :
                    html[j] = "</div>" /\ \A k \in first..(j - 1) : html[k] # "</div>"
    IN  SubSeq(html, first, last - 1)

\* contentWrapper.querySelector("*"): the first element of the markup, or null
querySelector(markup) ==
    IF \E i \in DOMAIN markup : markup[i] = "<p>" THEN [t |-> "element", id |-> Undefined]
    ELSE Null

\* a draft listener that closes the other panels when it opens one
togglePanel_closesOthers(p, h) ==
    LET wasOpen == "open" \in classList[p]
    IN  [classList |-> [q \in DOMAIN classList |->
                            IF q = p /\ ~wasOpen THEN classList[q] \cup {"open"}
                            ELSE classList[q] \ {"open"}],
         height |-> [height EXCEPT ![p] = IF wasOpen THEN << >> ELSE <<h>>],
         thrown |-> NoError]

\* the listener togglePanel(panel) of the draft, h the measured height of the content
togglePanel(p, h) ==
    LET wasOpen == "open" \in classList[p]
        newClasses == IF wasOpen THEN classList[p] \ {"open"} ELSE classList[p] \cup {"open"}
        nowOpen == ~wasOpen
        actualContent == querySelector(contentOf(container.innerHTML, p))
    IN  [classList |-> [classList EXCEPT ![p] = newClasses],
         height |-> IF nowOpen
                    THEN IF actualContent = Null THEN height
                         ELSE [height EXCEPT ![p] = <<h>>]
                    ELSE [height EXCEPT ![p] = << >>],
         thrown |-> IF nowOpen /\ actualContent = Null
                    THEN [name |-> "TypeError", message |-> << >>]
                    ELSE NoError]

\* a click on the icon of panel p in the draft
draftClick(p) ==
    /\ pc = "idle"
    /\ p \in listeners
    /\ \E h \in Heights :
          /\ classList' = togglePanel(p, h).classList
          /\ height' = togglePanel(p, h).height
          /\ thrown' = togglePanel(p, h).thrown
    /\ panel' = p
    /\ isOpen' = ("open" \in classList[p])
    /\ UNCHANGED <<options, pc, _options, _host, _openedPanel, validationResult, container,
                   listeners, timers, closedPanel, before>>

\* the example options, and options with a panel whose content holds no element
DraftOptions ==
    ClickOptions
    \cup {AccordionOptions(HostId, Undefined,
                           Arr(<<examplePanel(1),
                                 AccordionPanel(Str(<<"Title 2">>), Undefined,
                                                Str(<<"text only">>))>>))}


-----------------------------------------------------------------------------
(* Specifications *)

Init == InitWith(ClickOptions)

Next ==
    \/ constructor
    \/ \E p \in 1..MaxPanels : click(p)
    \/ _closeOpenPanel
    \/ _openPanel
    \/ timeout

Spec == Init /\ [][Next]_vars

\* the constructor alone, on every shape of options
InitValidate == InitWith(ValidatedOptions)
SpecValidate == InitValidate /\ [][constructor]_vars

\* the constructor alone, on valid options of varied texts
InitRender == InitWith(RenderedOptions)
SpecRender == InitRender /\ [][constructor]_vars

\* the draft: its constructor and its click listeners
InitDraft == InitWith(DraftOptions)

NextDraft ==
    \/ draftConstructor
    \/ \E p \in 1..MaxPanels : draftClick(p)

SpecDraft == InitDraft /\ [][NextDraft]_vars

-----------------------------------------------------------------------------
(* Properties of the panel state machine (Spec) *)

Panels == DOMAIN classList
OpenPanels == {p \in Panels : "open" \in classList[p]}
HandlerDone == pc = "idle" /\ panel # null

\* C1: in every reachable state, whatever the order of clicks and cleanup
\* timers, at most one panel carries the class "open".
C1_AtMostOneOpen == Cardinality(OpenPanels) <= 1

\* a panel is open after a click that closed another one, with cleanups pending
C1_Witness ==
    /\ pc = "idle"
    /\ Cardinality(OpenPanels) = 1
    /\ closedPanel # null
    /\ closedPanel \notin OpenPanels
    /\ timers # << >>

\* the handler of a click on closed panel B that found panel A open has closed A
SwitchedPanel == closedPanel # null /\ closedPanel # panel /\ ~isOpen

\* C2: a click on closed panel B while A is open closes A first (class "open"
\* removed, open reference cleared) and only then opens B: while A is still
\* open B is not, when B is about to be opened no panel is open, and when the
\* handler ends B is the only open panel, recorded as the open one, with its
\* content height set to a measured height.
C2_CloseThenOpen ==
    /\ pc = "closeThenOpen" => ~_isOpen(panel)
    /\ SwitchedPanel /\ pc = "open" => OpenPanels = {} /\ _openedPanel = null
    /\ SwitchedPanel /\ pc = "idle" =>
          /\ OpenPanels = {panel}
          /\ _openedPanel = panel
          /\ \E h \in Heights : height[panel] = <<h>>
          /\ height[closedPanel] = <<0>>

C2_Witness ==
    /\ SwitchedPanel
    /\ pc = "idle"
    /\ OpenPanels = {panel}
    /\ "transitioning" \in classList[closedPanel]

\* C3: a click on the toggle of the open panel is not a no-op: when its handler
\* ends the panel has no class "open", its content height is 0, _openedPanel is
\* null and no panel is open.
C3_ClickOnOpenCloses ==
    HandlerDone /\ isOpen =>
        /\ ~_isOpen(panel)
        /\ height[panel] = <<0>>
        /\ _openedPanel = null
        /\ OpenPanels = {}

C3_Witness == HandlerDone /\ isOpen /\ closedPanel = panel /\ Len(classList) >= 2

\* the second click of a round trip (open, then close) on before.panel has ended
RoundTripDone == HandlerDone /\ isOpen /\ before.panel = panel

\* C4 as stated: after two clicks in a row on a closed panel (and the cleanup
\* timers they started), the panel's class list and its content's inline
\* height equal their values before the first click.
C4_RoundTripRestoresMarkup ==
    RoundTripDone /\ timers = << >> =>
        /\ classList[panel] = before.classList
        /\ height[panel] = before.height

\* C4 amended: after the two clicks the panel is closed again with the class
\* list it had before the first click, the transient "transitioning" marker
\* apart (gone once the cleanup timers have fired); its content's inline
\* height is 0px, not unset as in freshly rendered markup.
C4_RoundTripClosesAgain ==
    RoundTripDone =>
        /\ classList[panel] \ {"transitioning"} = before.classList \ {"transitioning"}
        /\ timers = << >> => "transitioning" \notin classList[panel]
        /\ height[panel] = <<0>>
        /\ before.height \in {<< >>, <<0>>}

C4_Witness == RoundTripDone /\ timers = << >> /\ before.height = << >>

-----------------------------------------------------------------------------
(* Properties of validation and construction (SpecValidate) *)

Constructed == pc # "new"
Returned == validationResult.completion = "return"
Occurrences(seq, x) == Cardinality({i \in DOMAIN seq : seq[i] = x})
missingOptionError(name) == <<"The provided options must contain property ", name>>
missingPanelError(index, name) ==
    <<"Panel #">> \o decimal(index) \o <<" must contain property ", name>>
notAnArrayError == <<"The panels parameter must be an array of objects">>
IsErrorList(errors) ==
    /\ DOMAIN errors = 1..Len(errors)
    /\ \A i \in DOMAIN errors : Len(errors[i]) >= 1

\* C5: _validate never throws: for every options value it returns a result
\* with a boolean ok and a list of errors.
C5_ValidateNeverThrows ==
    Constructed =>
        /\ Returned
        /\ validationResult.ok \in BOOLEAN
        /\ IsErrorList(validationResult.errors)

\* C6: when validation reports ok = false, construction raises one error and
\* stops: nothing is rendered, no listener is attached, the host container is
\* untouched and _options, _host and _openedPanel stay null.
C6_InvalidOptionsStopConstruction ==
    Constructed /\ Returned /\ ~validationResult.ok =>
        /\ pc = "failed"
        /\ thrown.name = "Error"
        /\ container = PageContainer
        /\ classList = << >>
        /\ listeners = {}
        /\ _options = Null
        /\ _host = Null
        /\ _openedPanel = null

C6_Witness ==
    /\ pc = "failed"
    /\ Returned
    /\ Len(validationResult.errors) >= 3
    /\ Get(options, "container") = HostId

\* C7: for non-nil options, one _validate call reports exactly one "must
\* contain property" error for each of container and panels that is missing.
C7_ReportsEveryMissingField ==
    Constructed /\ ~isNil(options) =>
        \A name \in {"container", "panels"} :
            Occurrences(validationResult.errors, missingOptionError(name))
                = IF isNil(Get(options, name)) THEN 1 ELSE 0

\* C8: for every panels array, each panel field (title, content) that is nil
\* gets exactly one error naming the panel's index and the field, a field that
\* is present gets none, and panel errors come in increasing index order.
C8_ReportsEveryMissingPanelField ==
    Constructed /\ ~isNil(options) /\ isArray(Get(options, "panels")) =>
        LET items == Get(options, "panels").items
            errors == validationResult.errors
        IN  /\ \A i \in DOMAIN items : \A name \in {"title", "content"} :
                  ~isNil(items[i]) =>
                      Occurrences(errors, missingPanelError(i - 1, name))
                          = IF isNil(Get(items[i], name)) THEN 1 ELSE 0
            /\ \A i, j \in DOMAIN items : \A m, n \in {"title", "content"} :
                  \A a, b \in DOMAIN errors :
                      /\ errors[a] = missingPanelError(i - 1, m)
                      /\ errors[b] = missingPanelError(j - 1, n)
                      /\ a < b
                      => i <= j

\* options with a container and a panels value that is neither nil nor an array
MalformedPanels ==
    /\ ~isNil(options)
    /\ ~isNil(Get(options, "container"))
    /\ ~isNil(Get(options, "panels"))
    /\ ~isArray(Get(options, "panels"))

\* C9: a panels value that is present but not an array, with container given,
\* yields exactly one validation error, the one calling panels malformed, and
\* construction does not render.
C9_MalformedPanelsSingleError ==
    Constructed /\ MalformedPanels =>
        /\ validationResult = ValidationResult(FALSE, <<notAnArrayError>>)
        /\ pc = "failed"
        /\ thrown.name = "Error"
        /\ container = PageContainer
        /\ _host = Null

C9_Witness ==
    /\ pc = "failed"
    /\ MalformedPanels
    /\ Get(options, "panels") = Str(<<"not-an-array">>)
    /\ Len(validationResult.errors) = 1

-----------------------------------------------------------------------------
(* Properties of rendering (SpecRender) *)

Rendered == pc = "idle"
RenderedItems == Get(options, "panels").items
Contains(text, token) == \E i \in DOMAIN text : text[i] = token

\* the markup of the k-th panel element: from its opening tag up to the next one
Fragment(html, k) ==
    LET at == panelPositions(html)
    IN  SubSeq(html, at[k], IF k < Len(at) THEN at[k + 1] - 1 ELSE Len(html))

PlainTexts == {<< >>, <<"A">>, <<"sub">>, <<"<p>", "a", "</p>">>, <<"Accordion">>}
IsPlain(value) == isNil(value) \/ (value.t = "string" /\ value.s \in PlainTexts)

\* the markup expected of a panel with a title, an optional description and a content
ExpectedFragment(title, described, description, content) ==
    <<PanelOpenTag>> \o (IF described THEN <<"with-description">> ELSE << >>)
    \o <<"'>", HeaderOpenTag, "<div class='text'>", TitleOpenTag>> \o title \o <<"</div>">>
    \o (IF described THEN <<DescriptionOpenTag>> \o description \o <<"</div>">> ELSE << >>)
    \o <<"</div>", "<div class='toggle'>", "<i class='icon material-icons'>",
         "expand_more", "</i>", "</div>", "</div>">>
    \o <<ContentOpenTag, WrapperOpenTag>> \o content \o <<"</div>", "</div>", "</div>">>

\* what C10 says of the rendering, for a given reading of "the panel has a subtitle"
RenderedAsClaimed(HasSubtitle(_)) ==
    LET html == container.innerHTML
        items == RenderedItems
        hasHeader == ~isNil(Get(options, "mainTitle"))
        header == IF hasHeader
                  THEN <<HeaderOpenTag>> \o Text(Get(options, "mainTitle")) \o <<"</div>">>
                  ELSE << >>
    IN  /\ container.class = <<"js-accordion">>
        /\ \A i \in DOMAIN html : ~Contains(PageContainer.innerHTML, html[i])
        /\ Len(panelPositions(html)) = Len(items)
        /\ Len(classList) = Len(items)
        /\ IsPlain(Get(options, "mainTitle")) =>
              /\ SubSeq(html, 1, Len(header)) = header
              /\ Len(items) > 0 => panelPositions(html)[1] = Len(header) + 1
              /\ Len(items) = 0 => html = header
        /\ Count(html, HeaderOpenTag) = Len(items) + (IF hasHeader THEN 1 ELSE 0)
        /\ \A k \in DOMAIN items :
              /\ Contains(Fragment(html, k), DescriptionOpenTag) <=> HasSubtitle(items[k])
              /\ "with-description" \in classList[k] <=> HasSubtitle(items[k])
              /\ (\A name \in {"title", "subtitle", "content"} : IsPlain(items[k][name])) =>
                    Fragment(html, k) =
                        ExpectedFragment(items[k].title.s, HasSubtitle(items[k]),
                                         Text(items[k].subtitle), items[k].content.s)

SubtitleNotNil(p) == ~isNil(Get(p, "subtitle"))
SubtitleNotEmpty(p) == ~isNil(Get(p, "subtitle")) /\ Get(p, "subtitle") # Str(<< >>)

\* C10 as stated: rendering valid options replaces the host's contents by the
\* header fragment (exactly when mainTitle is not nil) followed by one fragment
\* per panel in input order, and a panel's fragment has a description block and
\* the class "with-description" exactly when its subtitle is not nil.
C10_RenderedPerPanel == Rendered => RenderedAsClaimed(SubtitleNotNil)

\* C10 amended: the same, with the description block and the class
\* "with-description" present exactly when the subtitle is neither nil nor the
\* empty string.
C10_RenderedPerPanelNonEmptySubtitle == Rendered => RenderedAsClaimed(SubtitleNotEmpty)

C10_Witness ==
    /\ Rendered
    /\ ~isNil(Get(options, "mainTitle"))
    /\ Len(RenderedItems) = 2
    /\ RenderedItems[1].subtitle = Str(<< >>)
    /\ RenderedItems[2].subtitle = Str(<<"sub">>)
    /\ RenderedItems[1].title.s = <<"A">>
    /\ "with-description" \in classList[2]

\* C11: _renderPanel substitutes verbatim: whatever text the title, subtitle and
\* content hold (a placeholder name or a replacement pattern included), the
\* title element holds exactly the title, the content element exactly the
\* content, the description element (if any) exactly the subtitle, and no
\* placeholder of the template is left in the fragment.
C11_SubstitutesVerbatim ==
    Rendered =>
        \A k \in DOMAIN RenderedItems :
            LET p == RenderedItems[k]
            IN  Fragment(container.innerHTML, k) =
                    ExpectedFragment(Text(p.title), Truthy(p.subtitle),
                                     Text(p.subtitle), Text(p.content))

-----------------------------------------------------------------------------
(* Properties of the bookkeeping and of the cleanup timers (Spec) *)

Running == pc \in {"idle", "closeOnly", "closeThenOpen", "open"}

\* C12: the assertion of _togglePanel never fails: no click raises, and in
\* every state in which a click can arrive, a panel that is open is the
\* recorded open panel.
C12_AssertionHolds ==
    Running =>
        /\ thrown = NoError
        /\ pc = "idle" => \A p \in listeners : _isOpen(p) => p = _openedPanel

\* a click on an open panel has passed the assertion, another panel was opened since
C12_Witness ==
    /\ HandlerDone
    /\ isOpen
    /\ thrown = NoError
    /\ before.panel = panel
    /\ "transitioning" \in classList[panel]
    /\ \E q \in Panels : q # panel /\ height[q] = <<0>>

\* C13: between event handlers _openedPanel is null exactly when no panel has
\* the class "open", and otherwise it is the one panel that has it.
C13_BookkeepingMatchesDom ==
    pc = "idle" =>
        OpenPanels = IF _openedPanel = null THEN {} ELSE {_openedPanel}

C13_Witness ==
    /\ pc = "idle"
    /\ _openedPanel # null
    /\ closedPanel # null
    /\ OpenPanels = {_openedPanel}
    /\ timers = << >>

\* a step in which the oldest pending cleanup callback runs
TimerStep == timers # << >> /\ timers' = Tail(timers)

\* C14: a cleanup callback only removes the class "transitioning" of its own
\* panel: the open flags, the content heights, _openedPanel and the handler
\* position are unchanged; and every step of a click handler changes the open
\* flags, _openedPanel and the handler position as a function of these alone,
\* whatever callbacks have or have not run.
C14_TimersOnlyClearMarker ==
    [][ /\ TimerStep =>
              /\ \A p \in Panels :
                    classList'[p] = IF p = Head(timers)
                                    THEN classList[p] \ {"transitioning"}
                                    ELSE classList[p]
              /\ height' = height
              /\ _openedPanel' = _openedPanel
              /\ pc' = pc
              /\ listeners' = listeners
        /\ Running /\ ~TimerStep =>
              /\ OpenPanels' = CASE pc \in {"closeOnly", "closeThenOpen"} ->
                                        OpenPanels \ {_openedPanel}
                                 [] pc = "open" -> OpenPanels \cup {panel}
                                 [] OTHER -> OpenPanels
              /\ _openedPanel' = CASE pc \in {"closeOnly", "closeThenOpen"} -> null
                                   [] pc = "open" -> panel
                                   [] OTHER -> _openedPanel
              /\ pc' = CASE pc = "closeOnly" -> "idle"
                         [] pc = "closeThenOpen" -> "open"
                         [] pc = "open" -> "idle"
                         [] OTHER -> IF panel' \notin OpenPanels THEN "closeThenOpen"
                                     ELSE IF panel' = _openedPanel THEN "closeOnly"
                                     ELSE "idle"
      ]_vars

\* a callback has run between clicks: one panel is settled open while the
\* cleanup of another is pending
C14_Witness ==
    /\ pc = "idle"
    /\ timers # << >>
    /\ \E p \in OpenPanels : "transitioning" \notin classList[p]
    /\ \E q \in Panels : "transitioning" \in classList[q] /\ height[q] = <<0>>

\* C15: a panel keeps the class "transitioning" until the delay started by its
\* latest transition has elapsed: as long as a cleanup callback of a panel is
\* pending, the panel carries the marker.
C15_MarkerKeptWhileDelayRuns ==
    \A i \in DOMAIN timers : "transitioning" \in classList[timers[i]]

-----------------------------------------------------------------------------
(* Liveness of the cleanup (SpecLive) *)

\* the event loop runs every expired timeout callback
SpecLive == Spec /\ WF_vars(timeout)

Quiet == \A p \in Panels : "transitioning" \notin classList[p]

\* C16: if clicks stop and every scheduled callback fires, eventually no panel
\* carries "transitioning" (an open panel is then open and not transitioning),
\* and it stays so until the next click.
C16_MarkerIsTransient ==
    /\ (pc = "idle") ~> (pc # "idle" \/ Quiet)
    /\ [][(pc = "idle" /\ Quiet /\ pc' = "idle") => Quiet']_vars

C16_Witness ==
    /\ pc = "idle"
    /\ Quiet
    /\ timers = << >>
    /\ \E p \in OpenPanels : classList[p] \in {{"panel", "open"}, {"panel", "with-description", "open"}}
    /\ closedPanel # null

-----------------------------------------------------------------------------
(* Properties of construction as a whole (SpecValidate) *)

\* C17: construction raises an error only when validation reports ok = false:
\* every options value the validator accepts is rendered into the host and gets
\* its listeners attached without an error being raised.
C17_OnlyInvalidOptionsRaise ==
    Constructed =>
        /\ thrown # NoError => Returned /\ ~validationResult.ok
        /\ Returned /\ validationResult.ok =>
              /\ pc = "idle"
              /\ _host = HostElement
              /\ container.class = <<"js-accordion">>
              /\ listeners = 1..Len(Get(options, "panels").items)

\* options that carry everything the validator requires
WellFormed(o) ==
    /\ ~isNil(o)
    /\ ~isNil(Get(o, "container"))
    /\ ~isNil(Get(o, "panels"))
    /\ isArray(Get(o, "panels"))
    /\ \A i \in DOMAIN Get(o, "panels").items :
          LET entry == Get(o, "panels").items[i]
          IN  /\ ~isNil(entry)
              /\ ~isNil(Get(entry, "title"))
              /\ ~isNil(Get(entry, "content"))

\* C18: _validate returns ok = true exactly when its errors list is empty, and
\* exactly when options is non-nil, container and panels are non-nil, panels is
\* an array and every panel has non-nil title and content; an empty panels
\* array is accepted, and neither subtitle nor mainTitle is required.
C18_AcceptsExactlyWellFormed ==
    Constructed =>
        /\ Returned => (validationResult.ok <=> validationResult.errors = << >>)
        /\ (Returned /\ validationResult.ok) <=> WellFormed(options)
        /\ (~isNil(options) /\ ~isNil(Get(options, "container"))
               /\ Get(options, "panels") = Arr(<< >>))
              => Returned /\ validationResult.ok

C18_Witness ==
    /\ Constructed /\ Returned /\ validationResult.ok
    /\ isNil(Get(options, "mainTitle"))
    /\ Len(Get(options, "panels").items) = 2
    /\ \E i \in 1..2 : isNil(Get(Get(options, "panels").items[i], "subtitle"))

\* the lines of a message: a new line starts after every token that holds a
\* line break (the break is followed by the list marker " - ")
RECURSIVE SplitLines(_, _)
SplitLines(message, line) ==
    IF message = << >> THEN <<line>>
    ELSE IF Head(message) = "\n - " THEN <<line>> \o SplitLines(Tail(message), << >>)
    ELSE SplitLines(Tail(message), Append(line, Head(message)))

IsSuffix(suffix, text) ==
    /\ Len(suffix) <= Len(text)
    /\ SubSeq(text, Len(text) - Len(suffix) + 1, Len(text)) = suffix

-----------------------------------------------------------------------------
(* Properties of the draft variant (SpecDraft) *)

\* C20: a click of the draft toggles the clicked panel only: a closed panel
\* becomes open, every other panel keeps its open flag, and _openedPanel is not
\* updated (it stays null); so two or more panels can carry "open" at once.
C20_DraftTogglesOnlyClicked ==
    [][ pc = "idle" =>
          /\ _openedPanel' = null
          /\ (panel' \in OpenPanels') = (panel' \notin OpenPanels)
          /\ \A q \in Panels \ {panel'} : (q \in OpenPanels') = (q \in OpenPanels)
      ]_vars

C20_Witness ==
    /\ pc = "idle"
    /\ Cardinality(OpenPanels) >= 2
    /\ panel \in OpenPanels
    /\ ~isOpen
    /\ thrown = NoError
    /\ _openedPanel = null

-----------------------------------------------------------------------------
(* Frame of a click (Spec) *)

\* C21: a step of a click handler on panel P changes the class list and content
\* height of at most P and the panel recorded as open, and of these only the
\* classes "open" and "transitioning"; every other panel, the rendered markup,
\* the listeners, the stored options and the host reference are unchanged.
C21_ClickFrame ==
    [][ (Running /\ ~TimerStep) =>
          /\ DOMAIN classList' = Panels
          /\ \A q \in Panels \ {panel', _openedPanel} :
                classList'[q] = classList[q] /\ height'[q] = height[q]
          /\ \A q \in Panels :
                classList'[q] \ {"open", "transitioning"}
                    = classList[q] \ {"open", "transitioning"}
          /\ container' = container
          /\ listeners' = listeners
          /\ _options' = _options
          /\ _host' = _host
      ]_vars

\* a click has closed one panel and opened another while a third panel, opened
\* and closed earlier, kept its state
C21_Witness ==
    /\ HandlerDone
    /\ closedPanel # null
    /\ closedPanel # panel
    /\ panel \in OpenPanels
    /\ \E q \in Panels \ {panel, closedPanel} : height[q] = <<0>>

====
